---- MODULE Spec2Model ----
(***************************************************************************)
(* Crop disease detection service: the treatment catalog                   *)
(* (backend/disease_treatments.py) and the inference request pipeline      *)
(* (backend/main.py, backend/model_utils.py).                              *)
(*                                                                         *)
(* Conventions                                                             *)
(*  - A Python str is a TLA+ string.                                       *)
(*  - A Python dict is a sequence of <<key, value>> pairs with distinct    *)
(*    keys, in insertion order (the order Python iterates it in).          *)
(*  - A parsed JSON value is Str(s) or Obj(dict).                          *)
(*  - A call that may raise yields Ok(value) or Raise(exception, text).    *)
(*  - A coroutine runs without interruption between two awaits; the only   *)
(*    await of the handlers is await file.read() in predict_disease.       *)
(*  - A float32 probability is its numerator over Denom = 2^25; a          *)
(*    confidence_score is given in hundredths (7000 stands for 70.0).      *)
(***************************************************************************)
EXTENDS Integers, Sequences, FiniteSets, TLC

VARIABLES
    comprehensive_file,   \* knowledge_base/comprehensive_disease_treatments.json
    knowledge_base_file,  \* knowledge_base/disease_treatments.json
    model_file,           \* models/model.h5
    model,                \* the global classifier of main.py
    started,              \* the startup hook has run
    pending,              \* the predict requests suspended at await file.read()
    op                    \* the last completed operation, its inputs and its outcome

vars == <<comprehensive_file, knowledge_base_file, model_file, model, started, pending,
          op>>

----------------------------------------------------------------------------
\* no operation is under way
Idle == [name |-> "idle"]

(* Python values *)

Ok(v) == [ok |-> TRUE, val |-> v]
Raise(e, text) == [ok |-> FALSE, exc |-> e, text |-> text]

Str(s) == [kind |-> "str", s |-> s]
Obj(d) == [kind |-> "obj", d |-> d]

\* str.startswith
StartsWith(s, prefix) ==
    /\ Len(s) >= Len(prefix)
    /\ SubSeq(s, 1, Len(prefix)) = prefix

\* sub in s, for strings
Contains(s, sub) ==
    \E i \in 1..(Len(s) - Len(sub) + 1) : SubSeq(s, i, i + Len(sub) - 1) = sub

\* dict operations
DictKeys(d) == {d[i][1] : i \in 1..Len(d)}
DictHas(d, k) == \E i \in 1..Len(d) : d[i][1] = k
DictGet(d, k) == d[CHOOSE i \in 1..Len(d) : d[i][1] = k][2]
DictSet(d, k, v) ==
    IF DictHas(d, k)
    THEN [i \in 1..Len(d) |-> IF d[i][1] = k THEN <<k, v>> ELSE d[i]]
    ELSE Append(d, <<k, v>>)

\* value[key] for a parsed JSON value
Subscript(value, key) ==
    IF value.kind = "obj"
    THEN IF DictHas(value.d, key)
         THEN Ok(DictGet(value.d, key))
         ELSE Raise("KeyError", "'" \o key \o "'")
    ELSE Raise("TypeError", "string indices must be integers, not 'str'")

\* key in value
In(key, value) ==
    IF value.kind = "obj" THEN DictHas(value.d, key) ELSE Contains(value.s, key)

\* ", ".join(parts)
RECURSIVE JoinComma(_)
JoinComma(parts) ==
    IF parts = <<>> THEN ""
    ELSE IF Len(parts) = 1 THEN parts[1]
    ELSE parts[1] \o ", " \o JoinComma(Tail(parts))

\* repr(value); the strings of the model hold no quote and no escape
RECURSIVE PyRepr(_)
PyRepr(value) ==
    IF value.kind = "str"
    THEN "'" \o value.s \o "'"
    ELSE "{" \o JoinComma([i \in 1..Len(value.d) |->
                 "'" \o value.d[i][1] \o "': " \o PyRepr(value.d[i][2])]) \o "}"

\* format(value, ""), the text an f-string puts for {value}
PyFormat(value) == IF value.kind = "str" THEN value.s ELSE PyRepr(value)

DiseaseInfo(description, treatment, prevention) ==
    Obj(<< <<"description", Str(description)>>,
           <<"treatment", Str(treatment)>>,
           <<"prevention", Str(prevention)>> >>)

----------------------------------------------------------------------------
(* backend/disease_treatments.py *)

disease_names ==
    << "Wheat Rust",
       "Wheat Blast",
       "Wheat Scab",
       "Wheat Healthy",
       "Rice Blast",
       "Rice Brown Spot",
       "Rice Bacterial Blight",
       "Rice Healthy",
       "Corn Northern Leaf Blight",
       "Corn Common Rust",
       "Corn Gray Leaf Spot",
       "Corn Southern Rust",
       "Corn Healthy",
       "Barley Scald",
       "Barley Net Blotch",
       "Barley Healthy",
       "Tomato Bacterial Spot",
       "Tomato Early Blight",
       "Tomato Late Blight",
       "Tomato Leaf Mold",
       "Tomato Septoria Leaf Spot",
       "Tomato Spider Mites",
       "Tomato Target Spot",
       "Tomato Yellow Leaf Curl Virus",
       "Tomato Mosaic Virus",
       "Tomato Healthy",
       "Potato Early Blight",
       "Potato Late Blight",
       "Potato Scab",
       "Potato Blackleg",
       "Potato Healthy",
       "Pepper Bacterial Spot",
       "Pepper Anthracnose",
       "Pepper Healthy",
       "Cucumber Downy Mildew",
       "Cucumber Powdery Mildew",
       "Cucumber Anthracnose",
       "Cucumber Healthy",
       "Lettuce Downy Mildew",
       "Lettuce Bacterial Soft Rot",
       "Lettuce Healthy",
       "Carrot Leaf Blight",
       "Carrot Root Rot",
       "Carrot Healthy",
       "Apple Scab",
       "Apple Fire Blight",
       "Apple Powdery Mildew",
       "Apple Healthy",
       "Citrus Canker",
       "Citrus Greening",
       "Citrus Melanose",
       "Citrus Healthy",
       "Grape Downy Mildew",
       "Grape Powdery Mildew",
       "Grape Black Rot",
       "Grape Healthy",
       "Strawberry Powdery Mildew",
       "Strawberry Gray Mold",
       "Strawberry Anthracnose",
       "Strawberry Healthy",
       "Soybean Rust",
       "Soybean Bacterial Blight",
       "Soybean Healthy",
       "Bean Anthracnose",
       "Bean Rust",
       "Bean Healthy",
       "Sweet Potato Scab",
       "Sweet Potato Healthy",
       "Cassava Mosaic Disease",
       "Cassava Brown Streak Disease",
       "Cassava Healthy" >>

get_default_treatments ==
    << <<"Tomato Bacterial Spot", DiseaseInfo(
            "Bacterial spot is a common disease of tomato caused by Xanthomonas vesicatoria",
            "Apply copper-based fungicides, improve air circulation, avoid overhead watering, remove infected plant debris",
            "Use disease-free seeds, practice crop rotation, maintain proper spacing between plants")>>,
       <<"Tomato Early Blight", DiseaseInfo(
            "Early blight is caused by the fungus Alternaria solani",
            "Apply fungicides containing chlorothalonil or copper, remove infected leaves, improve air circulation",
            "Mulch around plants, avoid overhead watering, practice crop rotation")>>,
       <<"Tomato Late Blight", DiseaseInfo(
            "Late blight is caused by the oomycete Phytophthora infestans",
            "Apply fungicides containing chlorothalonil or copper, remove infected plants immediately",
            "Avoid overhead watering, ensure good drainage, practice crop rotation")>>,
       <<"Tomato Leaf Mold", DiseaseInfo(
            "Leaf mold is caused by the fungus Passalora fulva",
            "Apply fungicides, improve air circulation, reduce humidity",
            "Use resistant varieties, maintain proper spacing, avoid overhead watering")>>,
       <<"Tomato Septoria Leaf Spot", DiseaseInfo(
            "Septoria leaf spot is caused by the fungus Septoria lycopersici",
            "Apply fungicides containing chlorothalonil, remove infected leaves",
            "Practice crop rotation, avoid overhead watering, maintain clean garden")>>,
       <<"Tomato Spider Mites", DiseaseInfo(
            "Spider mites are tiny arachnids that feed on plant sap",
            "Apply insecticidal soap or neem oil, increase humidity, remove heavily infested leaves",
            "Regular monitoring, maintain proper humidity, avoid over-fertilization")>>,
       <<"Tomato Target Spot", DiseaseInfo(
            "Target spot is caused by the fungus Corynespora cassiicola",
            "Apply fungicides, improve air circulation, remove infected leaves",
            "Practice crop rotation, maintain proper spacing, avoid overhead watering")>>,
       <<"Tomato Yellow Leaf Curl Virus", DiseaseInfo(
            "Yellow leaf curl virus is transmitted by whiteflies",
            "Control whitefly populations, remove infected plants, apply systemic insecticides",
            "Use resistant varieties, control weeds, monitor for whiteflies")>>,
       <<"Tomato Mosaic Virus", DiseaseInfo(
            "Mosaic virus is transmitted by aphids and mechanical means",
            "Remove infected plants, control aphid populations, disinfect tools",
            "Use disease-free seeds, control aphids, practice good hygiene")>>,
       <<"Tomato Healthy", DiseaseInfo(
            "The tomato plant appears healthy with no visible disease symptoms",
            "Continue current care practices, monitor regularly for any changes",
            "Maintain proper watering, fertilization, and pest management")>>,
       <<"Potato Early Blight", DiseaseInfo(
            "Early blight in potatoes is caused by Alternaria solani",
            "Apply fungicides containing chlorothalonil, remove infected foliage",
            "Practice crop rotation, maintain proper spacing, avoid overhead watering")>>,
       <<"Potato Late Blight", DiseaseInfo(
            "Late blight in potatoes is caused by Phytophthora infestans",
            "Apply fungicides containing chlorothalonil or copper, remove infected plants",
            "Avoid overhead watering, ensure good drainage, practice crop rotation")>>,
       <<"Potato Healthy", DiseaseInfo(
            "The potato plant appears healthy with no visible disease symptoms",
            "Continue current care practices, monitor regularly for any changes",
            "Maintain proper watering, fertilization, and pest management")>>,
       <<"Corn Northern Leaf Blight", DiseaseInfo(
            "Northern leaf blight is caused by the fungus Exserohilum turcicum",
            "Apply fungicides containing azoxystrobin or propiconazole",
            "Use resistant varieties, practice crop rotation, maintain proper spacing")>>,
       <<"Corn Common Rust", DiseaseInfo(
            "Common rust is caused by the fungus Puccinia sorghi",
            "Apply fungicides containing azoxystrobin or propiconazole",
            "Use resistant varieties, practice crop rotation, avoid overhead watering")>>,
       <<"Corn Gray Leaf Spot", DiseaseInfo(
            "Gray leaf spot is caused by the fungus Cercospora zeae-maydis",
            "Apply fungicides containing azoxystrobin or propiconazole",
            "Use resistant varieties, practice crop rotation, maintain proper spacing")>>,
       <<"Corn Healthy", DiseaseInfo(
            "The corn plant appears healthy with no visible disease symptoms",
            "Continue current care practices, monitor regularly for any changes",
            "Maintain proper watering, fertilization, and pest management")>> >>

\* flattened[disease_name] = disease_info
FlattenStoreFirst(flattened, disease_name, disease_info) ==
    IF DictHas(flattened, disease_name)
    THEN flattened
    ELSE Append(flattened, <<disease_name, disease_info>>)

FlattenStore(flattened, disease_name, disease_info) ==
    DictSet(flattened, disease_name, disease_info)

RECURSIVE FlattenDiseases(_, _, _)
FlattenDiseases(diseases, i, flattened) ==
    IF i > Len(diseases)
    THEN flattened
    ELSE FlattenDiseases(diseases, i + 1,
                         FlattenStore(flattened, diseases[i][1], diseases[i][2]))

NoItems == Raise("AttributeError", "'str' object has no attribute 'items'")

RECURSIVE FlattenCrops(_, _, _)
FlattenCrops(crops, i, flattened) ==
    IF i > Len(crops)
    THEN Ok(flattened)
    ELSE LET diseases == crops[i][2]
         IN  IF diseases.kind # "obj"
             THEN NoItems
             ELSE FlattenCrops(crops, i + 1, FlattenDiseases(diseases.d, 1, flattened))

RECURSIVE FlattenCategories(_, _, _)
FlattenCategories(categories, i, flattened) ==
    IF i > Len(categories)
    THEN Ok(flattened)
    ELSE LET crops == categories[i][2]
         IN  IF crops.kind # "obj"
             THEN NoItems
             ELSE LET r == FlattenCrops(crops.d, 1, flattened)
                  IN  IF r.ok
                      THEN FlattenCategories(categories, i + 1, r.val)
                      ELSE r

\* a mapping from names to records whose fields are strings
IsFlatStructure(data) ==
    /\ data.kind = "obj"
    /\ \A i \in 1..Len(data.d) :
           /\ data.d[i][2].kind = "obj"
           /\ \A j \in 1..Len(data.d[i][2].d) : data.d[i][2].d[j][2].kind = "str"

flatten_keeping_flat(comprehensive_data) ==
    IF comprehensive_data.kind # "obj"
    THEN NoItems
    ELSE IF IsFlatStructure(comprehensive_data)
    THEN Ok(comprehensive_data.d)
    ELSE FlattenCategories(comprehensive_data.d, 1, <<>>)

flatten_disease_database(comprehensive_data) ==
    IF comprehensive_data.kind # "obj"
    THEN NoItems
    ELSE FlattenCategories(comprehensive_data.d, 1, <<>>)

\* os.path.exists(path)
Exists(file) == file.kind # "absent"

\* with open(path, 'r') as f: json.load(f)
JsonLoad(file) ==
    CASE file.kind = "json" -> Ok(file.data)
      [] file.kind = "unreadable" -> Raise("PermissionError", "Permission denied")
      [] file.kind = "empty" -> Raise("JSONDecodeError", "Expecting value")
      [] OTHER -> Raise("JSONDecodeError", "Expecting value")

\* except Exception: return get_default_treatments()
OnLoadErrorEmpty == Obj(<<>>)

OnLoadError == Obj(get_default_treatments)

load_treatments_database(cfile, kfile) ==
    IF Exists(cfile)
    THEN LET c == JsonLoad(cfile)
         IN  IF ~c.ok
             THEN OnLoadError
             ELSE LET f == flatten_disease_database(c.val)
                  IN  IF f.ok THEN Obj(f.val) ELSE OnLoadError
    ELSE IF Exists(kfile)
         THEN LET k == JsonLoad(kfile)
              IN  IF k.ok THEN k.val ELSE OnLoadError
         ELSE Obj(get_default_treatments)

ComposeNoLabels(description, treatment, prevention) ==
    description \o "\n\n" \o treatment \o "\n\n" \o prevention

\* f"{description}\n\nTreatment: {treatment}\n\nPrevention: {prevention}"
Compose(description, treatment, prevention) ==
    description \o "\n\nTreatment: " \o treatment \o "\n\nPrevention: " \o prevention

NoInfoMessageAnonymous(disease_name) ==
    "No specific treatment information available. Please consult with a local agricultural extension service or plant pathologist for proper diagnosis and treatment recommendations."

NoInfoMessage(disease_name) ==
    "No specific treatment information available for " \o disease_name
    \o ". Please consult with a local agricultural extension service or plant pathologist for proper diagnosis and treatment recommendations."

get_treatment_suggestion(disease_name, cfile, kfile) ==
    LET treatments_db == load_treatments_database(cfile, kfile)
    IN  IF In(disease_name, treatments_db)
        THEN LET disease_info == Subscript(treatments_db, disease_name)
             IN  IF ~disease_info.ok THEN disease_info
                 ELSE LET description == Subscript(disease_info.val, "description")
                          treatment == Subscript(disease_info.val, "treatment")
                          prevention == Subscript(disease_info.val, "prevention")
                      IN  IF ~description.ok THEN description
                          ELSE IF ~treatment.ok THEN treatment
                          ELSE IF ~prevention.ok THEN prevention
                          ELSE Ok(Compose(PyFormat(description.val),
                                          PyFormat(treatment.val),
                                          PyFormat(prevention.val)))
        ELSE Ok(NoInfoMessage(disease_name))

----------------------------------------------------------------------------
(* backend/model_utils.py *)

DummyOutputs == 85

create_dummy_model == [kind |-> "dummy", outputs |-> DummyOutputs]

\* tf.keras.models.load_model(model_path)
KerasLoad(file) ==
    IF file.kind = "h5"
    THEN Ok([kind |-> "loaded", outputs |-> file.outputs])
    ELSE Raise("OSError", "Unable to open file")

load_model_or_none(file) ==
    IF ~Exists(file)
    THEN [kind |-> "None"]
    ELSE LET m == KerasLoad(file)
         IN  IF m.ok THEN m.val ELSE [kind |-> "None"]

load_model(file) ==
    IF ~Exists(file)
    THEN create_dummy_model
    ELSE LET m == KerasLoad(file)
         IN  IF m.ok THEN m.val ELSE create_dummy_model

TargetWidth == 224
TargetHeight == 224

\* the number of bands of a PIL mode; 0 for the single-band modes (1, L, P, I,
\* F, I;16), for which np.array(image) has no channel axis
Bands(mode) ==
    CASE mode \in {"LA", "PA", "La"} -> 2
      [] mode \in {"RGB", "YCbCr", "LAB", "HSV"} -> 3
      [] mode \in {"RGBA", "CMYK", "RGBX", "RGBa"} -> 4
      [] OTHER -> 0

\* the pixel data of an image file: whole; ending while the decoder holds left
\* bytes it has not processed (0 when the file ends on a block boundary); ending
\* inside a block header, so that reading the block fails; or damaged, so that
\* the decoder reports an error
Whole == [kind |-> "whole"]
CutShort(left) == [kind |-> "cut short", left |-> left]
CutInRead == [kind |-> "cut in read"]
DecoderError(message) == [kind |-> "decoder error", message |-> message]

\* Image.load(), which reads the pixel data Image.open left unread
ImageLoad(image) ==
    CASE image.pixels.kind = "whole" -> Ok(image)
      [] image.pixels.kind = "cut short" ->
             Raise("OSError", "image file is truncated (" \o ToString(image.pixels.left)
                              \o " bytes not processed)")
      [] image.pixels.kind = "cut in read" -> Raise("OSError", "image file is truncated")
      [] OTHER -> Raise("OSError", image.pixels.message \o " when reading image file")

\* image.resize(target_size), the pixel data being loaded: a copy when the size
\* is the target size already; otherwise every sample is interpolated and
\* clipped to the 8-bit range, so all that is kept of the samples is that they
\* lie in 0..255
Resize(image) ==
    IF image.size = <<TargetWidth, TargetHeight>>
    THEN image
    ELSE [image EXCEPT !.size = <<TargetWidth, TargetHeight>>, !.lo = 0, !.hi = 255]

\* image.resize(target_size); np.array(image); / 255.0; np.expand_dims(.., axis=0);
\* except Exception as e: raise e. resize() loads the pixel data, which Image.open
\* left unread. The tensor's values are the samples over scale: they lie in
\* lo/scale..hi/scale.
preprocess_image(image) ==
    IF ~ImageLoad(image).ok
    THEN ImageLoad(image)
    ELSE LET resized == Resize(image)
             array_shape == IF Bands(resized.mode) = 0
                            THEN <<resized.size[2], resized.size[1]>>
                            ELSE <<resized.size[2], resized.size[1], Bands(resized.mode)>>
         IN  Ok([shape |-> <<1>> \o array_shape,
                 lo |-> resized.lo, hi |-> resized.hi, scale |-> 255])

----------------------------------------------------------------------------
(* backend/main.py *)

None == [kind |-> "None"]

\* load_model_on_startup
Startup ==
    /\ op = Idle
    /\ ~started
    /\ started' = TRUE
    /\ model' = load_model(model_file)
    /\ op' = [name |-> "startup"]
    /\ UNCHANGED <<comprehensive_file, knowledge_base_file, model_file, pending>>

\* GET /
Root ==
    /\ op = Idle
    /\ op' = [name |-> "root", status |-> 200,
              body |-> [message |-> "Crop Disease Detection API is running!"]]
    /\ UNCHANGED <<comprehensive_file, knowledge_base_file, model_file, model, started, pending>>

health_check_assuming_loaded(m) ==
    [status |-> 200, body |-> [status |-> "healthy", model_loaded |-> TRUE]]

\* GET /health
health_check(m) ==
    [status |-> 200, body |-> [status |-> "healthy", model_loaded |-> m # None]]

Health ==
    /\ op = Idle
    /\ op' = [name |-> "health"] @@ health_check(model)
    /\ UNCHANGED <<comprehensive_file, knowledge_base_file, model_file, model, started, pending>>

HTTPException(status_code, detail) ==
    [ok |-> FALSE, exc |-> "HTTPException", status_code |-> status_code,
     detail |-> detail, text |-> ToString(status_code) \o ": " \o detail]

\* Image.MAX_IMAGE_PIXELS: Image.open refuses an image of more than twice as
\* many pixels, and only warns of one of more than as many
MAX_IMAGE_PIXELS == 89478485

Pixels(size) == size[1] * size[2]

\* Image.open(io.BytesIO(image_data)): the header is read, the pixel data is
\* not; at is the address of the BytesIO object, which the message shows
ImageOpen(data, at) ==
    IF ~data.decodes
    THEN Raise("UnidentifiedImageError",
               "cannot identify image file <_io.BytesIO object at " \o at \o ">")
    ELSE IF Pixels(data.size) > 2 * MAX_IMAGE_PIXELS
    THEN Raise("DecompressionBombError",
               "Image size (" \o ToString(Pixels(data.size))
               \o " pixels) exceeds limit of " \o ToString(2 * MAX_IMAGE_PIXELS)
               \o " pixels, could be decompression bomb DOS attack.")
    ELSE Ok([mode |-> data.mode, size |-> data.size, lo |-> data.lo, hi |-> data.hi,
             pixels |-> data.pixels])

\* what the Pillow installed does for convert("RGB") of a LAB image (no version
\* is pinned): it converts through ImageCms; it has no such conversion; or it
\* goes through ImageCms and was built without littlecms
LabConversions == {"ImageCms", "none", "ImageCms without littlecms"}

\* where PIL is installed, which the message of the failed import shows
InstallPath == "/usr/local/lib/python3.11/site-packages/PIL/__init__.py"

\* image.convert("RGB") of a LAB image whose pixel data is loaded
ConvertLAB(image, lab) ==
    CASE lab = "ImageCms" -> Ok([image EXCEPT !.mode = "RGB", !.lo = 0, !.hi = 255])
      [] lab = "none" -> Raise("ValueError", "conversion from LAB to RGB not supported")
      [] OTHER -> Raise("ImportError", "cannot import name '_imagingcms' from 'PIL' ("
                                       \o InstallPath \o ")")

\* the modes whose conversion to RGB copies samples and computes none
SampleKeepingModes == {"L", "LA", "RGBA", "RGBX"}

\* if image.mode != "RGB": image = image.convert("RGB"). convert() loads the
\* pixel data; lab is what the Pillow installed does for a LAB image. The samples of the result lie in lo..hi when they are copies of
\* the source's, and in 0..255 when they are computed (palette, CMYK, ...)
ConvertRGB(image, lab) ==
    IF image.mode = "RGB" THEN Ok(image)
    ELSE IF ~ImageLoad(image).ok THEN ImageLoad(image)
    ELSE IF image.mode = "LAB" THEN ConvertLAB(image, lab)
    ELSE IF image.mode \in SampleKeepingModes
    THEN Ok([image EXCEPT !.mode = "RGB"])
    ELSE Ok([image EXCEPT !.mode = "RGB", !.lo = 0, !.hi = 255])

\* float32 probabilities are numerators over Denom; Denom = 16 * Unit
Denom == 2^25
Unit == 2^21

\* max(p)
MaxOf(p, n) == CHOOSE v \in {p[k] : k \in 0..(n - 1)} : \A k \in 0..(n - 1) : p[k] <= v

np_argmax_last(p, n) ==
    LET m == MaxOf(p, n)
    IN  CHOOSE i \in 0..(n - 1) : p[i] = m /\ \A j \in (i + 1)..(n - 1) : p[j] # m

\* np.argmax(predictions[0]): the first index holding the maximum
np_argmax(p, n) ==
    LET m == MaxOf(p, n)
    IN  CHOOSE i \in 0..(n - 1) : p[i] = m /\ \A j \in 0..(i - 1) : p[j] # m

\* round(confidence * 100, 2), in hundredths: the float32 times 100 is exact in a
\* double, and round() takes the nearest hundredth of it, a tie to the even one.
\* confidence * 10000 / Denom is confidence * 625 / Unit, taken in two parts to
\* stay within 32 bits.
Round2(confidence) ==
    LET part == (confidence % Unit) * 625
        floor == (confidence \div Unit) * 625 + part \div Unit
        rest == part % Unit
    IN  IF 2 * rest < Unit THEN floor
        ELSE IF 2 * rest > Unit THEN floor + 1
        ELSE IF floor % 2 = 0 THEN floor ELSE floor + 1

LabelOfUnchecked(class_index) ==
    IF class_index < Len(disease_names)
    THEN Ok(disease_names[class_index + 1])
    ELSE Raise("IndexError", "list index out of range")

\* disease_names[class_index] if class_index < len(disease_names) else "Unknown Disease"
LabelOf(class_index) ==
    IF class_index < Len(disease_names)
    THEN Ok(disease_names[class_index + 1])
    ELSE Ok("Unknown Disease")

ExceptHandlerAsContent(e) ==
    [ok |-> TRUE, val |-> [error |-> "Prediction failed: " \o e.text]]

\* except Exception as e: raise HTTPException(status_code=500, ...)
ExceptHandler(e) == HTTPException(500, "Prediction failed: " \o e.text)

\* no tensor has been made
NoTensor == [shape |-> <<>>]

AnyType(content_type) == TRUE

\* file.content_type.startswith("image/")
IsImageType(content_type) == StartsWith(content_type, "image/")

\* the statements of the try block up to await file.read(): what they raise, or
\* the upload whose bytes the handler waits for
Validate(file) ==
    IF ~file.has_content_type
    THEN Raise("AttributeError", "'NoneType' object has no attribute 'startswith'")
    ELSE IF ~IsImageType(file.content_type)
    THEN HTTPException(400, "File must be an image")
    ELSE Ok(file)

\* the statements of the try block from the bytes read up to the classifier
\* call; what they raise, or the tensor handed to the classifier. m is the
\* classifier loaded when the handler goes on, at is the address of the BytesIO
\* object, lab is what the Pillow installed does for a LAB image
BeforePredict(data, at, lab, m) ==
    LET opened == ImageOpen(data, at)
    IN  IF ~opened.ok
        THEN [res |-> opened, steps |-> <<"validate", "read", "open">>,
              tensor |-> NoTensor]
        ELSE LET image == ConvertRGB(opened.val, lab)
             IN  IF ~image.ok
                 THEN [res |-> image, steps |-> <<"validate", "read", "open">>,
                       tensor |-> NoTensor]
                 ELSE LET processed_image == preprocess_image(image.val)
                      IN  IF ~processed_image.ok
                          THEN [res |-> processed_image,
                                steps |-> <<"validate", "read", "open", "preprocess">>,
                                tensor |-> NoTensor]
                          ELSE IF m = None
                          THEN [res |-> HTTPException(500, "Model not loaded"),
                                steps |-> <<"validate", "read", "open", "preprocess">>,
                                tensor |-> processed_image.val]
                          ELSE [res |-> processed_image,
                                steps |-> <<"validate", "read", "open", "preprocess">>,
                                tensor |-> processed_image.val]

\* the statements of the try block from the classifier's answer on
AfterPredict(predictions, n, cfile, kfile) ==
    LET class_index == np_argmax(predictions, n)
        confidence == predictions[class_index]
        disease_name == LabelOf(class_index)
    IN  IF ~disease_name.ok THEN disease_name
        ELSE LET treatment == get_treatment_suggestion(disease_name.val, cfile, kfile)
             IN  IF ~treatment.ok THEN treatment
                 ELSE Ok([disease_name |-> disease_name.val,
                          confidence_score |-> Round2(confidence),
                          treatment_suggestion |-> treatment.val])

\* what the framework sends for the handler's outcome: the JSONResponse returned,
\* or the raised HTTPException's status and detail
Respond(outcome) ==
    IF outcome.ok
    THEN [status |-> 200, body |-> outcome.val]
    ELSE [status |-> outcome.status_code, body |-> [detail |-> outcome.detail]]

\* try: ... except Exception as e: ...
Guarded(res) == IF res.ok THEN res ELSE ExceptHandler(res)

----------------------------------------------------------------------------
(* The files the service reads *)

Absent == [kind |-> "absent"]
Empty == [kind |-> "empty"]
Corrupt == [kind |-> "corrupt"]
Unreadable == [kind |-> "unreadable"]
Json(data) == [kind |-> "json", data |-> data]
H5(outputs) == [kind |-> "h5", outputs |-> outputs]

RecA == DiseaseInfo("Description A", "Spray A", "Rotate A")
RecB == DiseaseInfo("Description B", "Spray B", "Rotate B")
RecNoPrevention == Obj(<< <<"description", Str("Description C")>>,
                          <<"treatment", Str("Spray C")>> >>)
RecNoDescription == Obj(<< <<"treatment", Str("Spray D")>>,
                           <<"prevention", Str("Rotate D")>> >>)

SampleFlat ==
    << <<"Wheat Rust", RecA>>, <<"Wheat Blast", RecNoPrevention>>,
       <<"Tomato Healthy", RecB>> >>

SampleFlatIncomplete ==
    << <<"Tomato Healthy", RecNoDescription>>, <<"Rice Blast", Str("see the leaflet")>> >>

\* a record whose description is a mapping
RecNested ==
    Obj(<< <<"description", Obj(<< <<"a", Str("b")>>, <<"c", Obj(<<>>)>> >>)>>,
           <<"treatment", Str("Spray N")>>,
           <<"prevention", Str("Rotate N")>> >>)

SampleFlatNested == << <<"Wheat Blast", RecNested>>, <<"Wheat Rust", RecA>> >>

\* records without any field
SampleFlatBare == << <<"Rice Blast", Obj(<<>>)>>, <<"Wheat Rust", Obj(<<>>)>> >>

SampleHier ==
    << <<"CEREALS", Obj(<< <<"Wheat", Obj(<< <<"Wheat Rust", RecB>>,
                                              <<"Wheat Blast", RecA>> >>)>>,
                           <<"Rice", Obj(<< <<"Rice Blast", RecA>> >>)>> >>)>>,
       <<"VEGETABLES", Obj(<< <<"Tomato", Obj(<< <<"Tomato Healthy", RecNoPrevention>>,
                                                  <<"Wheat Rust", RecA>> >>)>> >>)>> >>

\* a hierarchy whose second level holds strings where crops are expected
SampleHierShallow ==
    << <<"CEREALS", Obj(<< <<"Wheat", Obj(<< <<"Wheat Rust", RecA>> >>)>> >>)>>,
       <<"note", Str("draft")>> >>

MaxEntries == 2

Categories == {"CEREALS", "VEGETABLES"}
Crops == {"Wheat", "Tomato"}
EntryNames == {"Wheat Rust", "Tomato Healthy"}
EntryRecords == {RecA, RecB}
Entry == Categories \X Crops \X EntryNames \X EntryRecords

\* d[k], or an empty object when d has no k
GetOrEmpty(d, k) == IF DictHas(d, k) THEN DictGet(d, k).d ELSE <<>>

\* the hierarchy after h[category][crop][name] = record
HierInsert(h, e) ==
    LET crops == GetOrEmpty(h, e[1])
        diseases == GetOrEmpty(crops, e[2])
    IN  DictSet(h, e[1], Obj(DictSet(crops, e[2], Obj(DictSet(diseases, e[3], e[4])))))

RECURSIVE HierOf(_)
HierOf(entries) ==
    IF entries = <<>> THEN <<>>
    ELSE HierInsert(HierOf(SubSeq(entries, 1, Len(entries) - 1)), entries[Len(entries)])

SeqsUpTo(S, n) == UNION {[1..k -> S] : k \in 0..n}

GeneratedHierarchies == {HierOf(entries) : entries \in SeqsUpTo(Entry, MaxEntries)}

CatalogComprehensiveFiles ==
    {Absent, Empty, Corrupt, Unreadable,
     Json(Obj(SampleHier)), Json(Obj(SampleHierShallow)), Json(Obj(SampleFlat)),
     Json(Obj(SampleFlatBare)), Json(Obj(<< <<"Tomato Healthy", RecB>> >>)),
     Json(Str("draft"))}
    \cup {Json(Obj(h)) : h \in GeneratedHierarchies}

CatalogKnowledgeFiles ==
    {Absent, Empty, Corrupt, Unreadable,
     Json(Obj(SampleFlat)), Json(Obj(SampleFlatIncomplete)), Json(Obj(<<>>)),
     Json(Obj(SampleFlatNested)), Json(Str("draft")), Json(Str(""))}

ServiceComprehensiveFiles == {Absent, Corrupt, Json(Obj(SampleHier))}
ServiceKnowledgeFiles == {Absent, Json(Obj(SampleFlat))}
ModelFiles == {Absent, Corrupt, H5(2), H5(Len(disease_names))}

LookupNames ==
    {"Tomato Healthy", "tomato healthy", "Wheat Rust", "Wheat Blast", "Rice Blast",
     "Corn Healthy", "Unknown Disease", "raf", ""}

ContentTypes == {"image/jpeg", "text/plain", "Image/PNG", "image"}

\* the uploads as they arrive: the declared content type, or none
Uploads ==
    {[has_content_type |-> FALSE, content_type |-> ""]}
    \cup {[has_content_type |-> TRUE, content_type |-> c] : c \in ContentTypes}

\* bytes that are no image of a known format
Unidentified == [decodes |-> FALSE]

\* bytes of an image: mode, size <<width, height>>, bounds lo..hi of the samples,
\* and the state of the pixel data
Picture(mode, size, lo, hi) ==
    [decodes |-> TRUE, mode |-> mode, size |-> size, lo |-> lo, hi |-> hi,
     pixels |-> Whole]

\* bytes whose header opens and whose pixel data does not load
DamagedPicture(mode, size, pixels) ==
    [decodes |-> TRUE, mode |-> mode, size |-> size, lo |-> 0, hi |-> 255,
     pixels |-> pixels]

Pictures ==
    {Picture("RGB", <<224, 224>>, 0, 255), Picture("RGB", <<640, 480>>, 17, 200),
     Picture("RGBA", <<224, 224>>, 0, 255), Picture("RGBA", <<640, 480>>, 0, 128),
     Picture("L", <<1, 1>>, 255, 255), Picture("L", <<224, 224>>, 3, 90),
     Picture("P", <<640, 480>>, 0, 255), Picture("P", <<224, 224>>, 0, 0),
     Picture("CMYK", <<224, 224>>, 0, 0), Picture("LA", <<224, 224>>, 10, 20),
     Picture("LAB", <<224, 224>>, 0, 255), Picture("LAB", <<640, 480>>, 0, 100),
     Picture("L", <<10000, 10000>>, 0, 255),
     Picture("RGB", <<17895697, 10>>, 0, 255), Picture("RGB", <<20000, 10000>>, 0, 255),
     Picture("L", <<178956971, 1>>, 0, 255)}

DamagedPictures ==
    {DamagedPicture("RGB", <<224, 224>>, CutShort(0)),
     DamagedPicture("RGB", <<224, 224>>, CutShort(16)),
     DamagedPicture("RGB", <<640, 480>>, CutInRead),
     DamagedPicture("RGB", <<640, 480>>, DecoderError("broken data stream")),
     DamagedPicture("L", <<224, 224>>, CutShort(0)),
     DamagedPicture("L", <<224, 224>>, DecoderError("buffer overrun")),
     DamagedPicture("P", <<640, 480>>, CutInRead)}

\* the bytes await file.read() can give
UploadBytes == {Unidentified} \cup Pictures \cup DamagedPictures

\* the addresses a BytesIO object is given
Addresses == {"0x7f2c1a0b3d80", "0x7f2c1a0b4e50"}

\* float32(0.3) = 10066330 / 2^25 and float32(0.7) = 11744051 / 2^24
Float03 == 5033165 * 2
Float07 == 11744051 * 2

\* float32 values: 0, 1/32, 3/32, float32(0.3), float32(0.7), 1
Probabilities == {0, Denom \div 32, 3 * (Denom \div 32), Float03, Float07, Denom}

ProbeIndexes(n) ==
    {0, 1, Len(disease_names) - 1, Len(disease_names), n - 1} \cap (0..(n - 1))

\* the classifier outputs tried: at most two non-zero positions
Predictions(n) ==
    {[k \in 0..(n - 1) |-> IF k = i THEN a ELSE IF k = j THEN b ELSE 0]
     : i \in ProbeIndexes(n), j \in ProbeIndexes(n),
       a \in Probabilities, b \in Probabilities}

\* the pictures every output is tried with
FullyProbed ==
    {Picture("RGB", <<224, 224>>, 0, 255), Picture("RGBA", <<640, 480>>, 0, 128)}

\* the outputs tried with the other pictures: all on the first index, and most
\* on the last
FewPredictions(n) ==
    {[k \in 0..(n - 1) |-> IF k = 0 THEN Denom ELSE 0],
     [k \in 0..(n - 1) |-> IF k = n - 1 THEN Float07 ELSE Float03]}

\* the classifier's output does not depend on the picture here, so the full
\* set is tried with two pictures only
PredictionsFor(data, n) ==
    IF data \in FullyProbed THEN Predictions(n) ELSE FewPredictions(n)

\* the requests that can wait for their bytes at one time
MaxPending == 2

\* the sequence without its i-th element
Without(seq, i) == SubSeq(seq, 1, i - 1) \o SubSeq(seq, i + 1, Len(seq))

----------------------------------------------------------------------------
(* The service *)

Init ==
    /\ comprehensive_file \in ServiceComprehensiveFiles
    /\ knowledge_base_file \in ServiceKnowledgeFiles
    /\ model_file \in ModelFiles
    /\ model = None
    /\ started = FALSE
    /\ pending = <<>>
    /\ op = Idle

\* POST /predict, up to await file.read(): the request is answered when the
\* validation raises, and waits for its bytes otherwise
PredictBegin ==
    /\ op = Idle
    /\ \E file \in Uploads :
         LET validated == Validate(file)
         IN  IF ~validated.ok
             THEN /\ op' = [name |-> "predict", file |-> file,
                            began_loaded |-> model # None,
                            model_loaded |-> model # None]
                           @@ Respond(Guarded(validated))
                           @@ [invoked |-> FALSE, steps |-> <<"validate">>,
                               tensor |-> NoTensor]
                  /\ pending' = pending
             ELSE /\ Len(pending) < MaxPending
                  /\ pending' = Append(pending, file @@ [began_loaded |-> model # None])
                  /\ op' = op
    /\ UNCHANGED <<comprehensive_file, knowledge_base_file, model_file, model, started>>

\* the outcome of the request for the bytes and the classifier output given
AnswerWith(request, before, predictions) ==
    request
    @@ Respond(Guarded(AfterPredict(predictions, model.outputs, comprehensive_file,
                                    knowledge_base_file)))
    @@ [invoked |-> TRUE, predictions |-> predictions, outputs |-> model.outputs,
        steps |-> before.steps \o <<"predict">>, tensor |-> before.tensor]

\* POST /predict, from the bytes read to the answer: the handler goes on with
\* the classifier and the files as they are now
PredictResume ==
    /\ op = Idle
    /\ \E i \in 1..Len(pending), data \in UploadBytes :
         /\ pending' = Without(pending, i)
         /\ \E at \in IF data.decodes THEN {""} ELSE Addresses,
                 lab \in IF data.decodes /\ data.mode = "LAB"
                         THEN LabConversions ELSE {"ImageCms"} :
              LET before == BeforePredict(data, at, lab, model)
                  request == [name |-> "predict",
                              file |-> [has_content_type |-> pending[i].has_content_type,
                                        content_type |-> pending[i].content_type,
                                        data |-> data],
                              began_loaded |-> pending[i].began_loaded,
                              model_loaded |-> model # None]
              IN  IF ~before.res.ok
                  THEN op' = request @@ Respond(Guarded(before.res))
                             @@ [invoked |-> FALSE, steps |-> before.steps,
                                 tensor |-> before.tensor]
                  ELSE \E predictions \in PredictionsFor(data, model.outputs) :
                         op' = AnswerWith(request, before, predictions)
    /\ UNCHANGED <<comprehensive_file, knowledge_base_file, model_file, model, started>>

\* the outcome has been handed over; the next operation can begin
Deliver ==
    /\ op # Idle
    /\ op' = Idle
    /\ UNCHANGED <<comprehensive_file, knowledge_base_file, model_file, model, started, pending>>

Next == Startup \/ Root \/ Health \/ PredictBegin \/ PredictResume \/ Deliver

Spec == Init /\ [][Next]_vars

----------------------------------------------------------------------------
(* The catalog on its own *)

InitCatalog ==
    /\ comprehensive_file \in CatalogComprehensiveFiles
    /\ knowledge_base_file \in CatalogKnowledgeFiles
    /\ model_file = Absent
    /\ model = None
    /\ started = FALSE
    /\ pending = <<>>
    /\ op = Idle

Load ==
    /\ op = Idle
    /\ op' = [name |-> "load",
              catalog |-> load_treatments_database(comprehensive_file, knowledge_base_file)]
    /\ UNCHANGED <<comprehensive_file, knowledge_base_file, model_file, model, started, pending>>

Lookup ==
    /\ op = Idle
    /\ \E disease_name \in LookupNames :
         op' = [name |-> "lookup", disease_name |-> disease_name,
                result |-> get_treatment_suggestion(disease_name, comprehensive_file,
                                                    knowledge_base_file)]
    /\ UNCHANGED <<comprehensive_file, knowledge_base_file, model_file, model, started, pending>>

Flatten ==
    /\ op = Idle
    /\ comprehensive_file.kind = "json"
    /\ op' = [name |-> "flatten",
              result |-> flatten_disease_database(comprehensive_file.data)]
    /\ UNCHANGED <<comprehensive_file, knowledge_base_file, model_file, model, started, pending>>

NextCatalog == Load \/ Lookup \/ Flatten \/ Deliver

SpecCatalog == InitCatalog /\ [][NextCatalog]_vars

----------------------------------------------------------------------------
(* Properties of POST /predict *)

IsPredict == op.name = "predict"

ResultFields == {"disease_name", "confidence_score", "treatment_suggestion"}

ValidUpload(file) ==
    /\ file.has_content_type
    /\ StartsWith(file.content_type, "image/")
    /\ file.data.decodes
    /\ file.data.pixels = Whole

\* C1: an upload whose declared content type does not start with "image/" is
\* answered with status 400, whether or not a classifier is loaded.
C1_NonImageIs400 ==
    (IsPredict /\ op.file.has_content_type
        /\ ~StartsWith(op.file.content_type, "image/"))
    => op.status = 400

\* C2: every predict request ends either in a 200 response carrying exactly the
\* three result fields or in an error response, and a request made while no
\* classifier is loaded ends in a 500 error. model_loaded tells whether a
\* classifier was loaded when the handler ran its last statements: for a request
\* that waited for its bytes, after the wait, which is when the handler looks.
C2_CompleteResultOrError ==
    IsPredict =>
        /\ \/ op.status = 200 /\ DOMAIN op.body = ResultFields
           \/ op.status \in 400..599 /\ DOMAIN op.body = {"detail"}
        /\ ~op.model_loaded => op.status = 500

C2_Witness ==
    /\ IsPredict
    /\ ValidUpload(op.file)
    /\ ~op.model_loaded
    /\ op.status = 500
    /\ op.body.detail = "Prediction failed: 500: Model not loaded"

\* i is the lowest index holding the maximum of p
FirstMaximum(p, n, i) ==
    /\ \A j \in 0..(n - 1) : p[j] <= p[i]
    /\ \A j \in 0..(i - 1) : p[j] < p[i]

\* score hundredths is within half a hundredth of confidence * 100
NearestHundredth(score, confidence) ==
    LET d == score - 625 * (confidence \div Unit)
        r == (confidence % Unit) * 625
    IN  /\ d \in 0..625
        /\ d * Unit - r <= Unit \div 2
        /\ r - d * Unit <= Unit \div 2


\* C3: a successful predict names the label at the lowest index holding the
\* maximum probability, with that probability times 100 rounded to 2 decimal
\* places as confidence_score, a value in [0, 100]; an output of 1.0 at index 0
\* and 0 elsewhere gives the first label with 100.0, and [0.3, 0.7] gives the
\* second label with 70.0.
C3_ArgmaxLabelAndConfidence ==
    (IsPredict /\ op.status = 200) =>
        LET p == op.predictions
            n == op.outputs
        IN  /\ \E i \in 0..(n - 1) :
                 /\ FirstMaximum(p, n, i)
                 /\ i < Len(disease_names) => op.body.disease_name = disease_names[i + 1]
                 /\ NearestHundredth(op.body.confidence_score, p[i])
            /\ op.body.confidence_score \in 0..10000
            /\ (p[0] = Denom /\ \A k \in 1..(n - 1) : p[k] = 0)
                   => /\ op.body.disease_name = disease_names[1]
                      /\ op.body.confidence_score = 10000
            /\ (n = 2 /\ p[0] = Float03 /\ p[1] = Float07)
                   => /\ op.body.disease_name = disease_names[2]
                      /\ op.body.confidence_score = 7000

C3_Witness ==
    /\ IsPredict
    /\ op.status = 200
    /\ op.predictions[0] = Float07
    /\ op.predictions[1] = Float07
    /\ op.body.disease_name = "Wheat Rust"
    /\ op.body.confidence_score = 7000

\* C4: when the argmax index lies outside the label list, predict answers 200
\* with disease_name "Unknown Disease" and the lookup's no-data message for it.
C4_UnknownDisease ==
    (IsPredict /\ op.invoked
        /\ \E i \in Len(disease_names)..(op.outputs - 1) :
               FirstMaximum(op.predictions, op.outputs, i))
    => /\ op.status = 200
       /\ op.body.disease_name = "Unknown Disease"
       /\ op.body.treatment_suggestion =
              "No specific treatment information available for Unknown Disease. Please consult with a local agricultural extension service or plant pathologist for proper diagnosis and treatment recommendations."

C4_Witness ==
    /\ IsPredict
    /\ op.invoked
    /\ op.outputs = DummyOutputs
    /\ FirstMaximum(op.predictions, op.outputs, Len(disease_names))
    /\ op.status = 200
    /\ op.body.disease_name = "Unknown Disease"

----------------------------------------------------------------------------
(* Properties of the treatment catalog *)

IsLoad == op.name = "load"
IsLookup == op.name = "lookup"
IsFlatten == op.name = "flatten"

\* the file yields a parsed value
Parses(file) == file.kind = "json"

\* the hierarchical file parses and flattens
Flattens(file) == Parses(file) /\ flatten_disease_database(file.data).ok

\* C5: loading tries the three sources in order, and a failure at one step
\* moves on to the next step: a hierarchical resource that exists but fails to
\* parse or flatten still lets a valid flat resource be used.
C5_FailureFallsToNextStep ==
    IsLoad =>
        op.catalog =
            IF Flattens(comprehensive_file)
            THEN Obj(flatten_disease_database(comprehensive_file.data).val)
            ELSE IF Parses(knowledge_base_file)
                 THEN knowledge_base_file.data
                 ELSE Obj(get_default_treatments)

\* the resource loading reads: the hierarchical one when it exists
ResourceRead == IF Exists(comprehensive_file) THEN comprehensive_file ELSE knowledge_base_file

IsCompleteRecord(info) ==
    /\ info.kind = "obj"
    /\ \A field \in {"description", "treatment", "prevention"} :
           DictHas(info.d, field) /\ DictGet(info.d, field).kind = "str"

\* C6: loading always returns a value and never an exception, and when the
\* resource it reads is empty or corrupt the value is the embedded default
\* table: 17 disease names, "Tomato Healthy" among them, each with description,
\* treatment and prevention.
C6_DefaultsWhenCorrupt ==
    IsLoad =>
        /\ op.catalog.kind \in {"obj", "str"}
        /\ ResourceRead.kind \in {"empty", "corrupt"} =>
               /\ op.catalog.kind = "obj"
               /\ Cardinality(DictKeys(op.catalog.d)) = 17
               /\ Len(op.catalog.d) = 17
               /\ "Tomato Healthy" \in DictKeys(op.catalog.d)
               /\ \A name \in DictKeys(op.catalog.d) :
                      IsCompleteRecord(DictGet(op.catalog.d, name))

C6_Witness ==
    /\ IsLoad
    /\ comprehensive_file.kind = "corrupt"
    /\ Parses(knowledge_base_file)
    /\ op.catalog.kind = "obj"
    /\ DictHas(op.catalog.d, "Tomato Healthy")
    /\ DictHas(op.catalog.d, "Corn Healthy")

Loaded == load_treatments_database(comprehensive_file, knowledge_base_file)

\* the loaded value is a catalog, a mapping, and name is one of its keys
IsKey(name) == Loaded.kind = "obj" /\ DictHas(Loaded.d, name)

\* the loaded value is a catalog and name is none of its keys
IsNoKey(name) == Loaded.kind = "obj" /\ ~DictHas(Loaded.d, name)

RecordOf(name) == DictGet(Loaded.d, name)

\* the record is a mapping holding the three fields
HasThreeFields(info) ==
    /\ info.kind = "obj"
    /\ \A field \in {"description", "treatment", "prevention"} : DictHas(info.d, field)

Field(info, field) == DictGet(info.d, field).s

\* C7: for a name that is a key of the loaded catalog (a mapping, the name's
\* record holding the three fields as strings), lookup returns description, "\n\nTreatment: ", treatment,
\* "\n\nPrevention: ", prevention joined, so the result contains "Treatment:"
\* and "Prevention:".
C7_HitComposesRecord ==
    (IsLookup /\ IsKey(op.disease_name) /\ IsCompleteRecord(RecordOf(op.disease_name)))
    => LET info == RecordOf(op.disease_name)
       IN  /\ op.result.ok
           /\ op.result.val = Field(info, "description") \o "\n\nTreatment: "
                              \o Field(info, "treatment") \o "\n\nPrevention: "
                              \o Field(info, "prevention")
           /\ Contains(op.result.val, "Treatment:")
           /\ Contains(op.result.val, "Prevention:")

C7_Witness ==
    /\ IsLookup
    /\ op.disease_name = "Wheat Rust"
    /\ Flattens(comprehensive_file)
    /\ op.result.ok
    /\ op.result.val = "Description A\n\nTreatment: Spray A\n\nPrevention: Rotate A"

\* C8: for a name that is not a key of the loaded catalog (a mapping), also one
\* that differs from a key only in letter case, lookup returns a non-empty message
\* containing the name and does not raise.
C8_MissNamesTheDisease ==
    (IsLookup /\ IsNoKey(op.disease_name))
    => /\ op.result.ok
       /\ Len(op.result.val) > 0
       /\ Contains(op.result.val, op.disease_name)

C8_Witness ==
    /\ IsLookup
    /\ op.disease_name = "tomato healthy"
    /\ IsKey("Tomato Healthy")
    /\ op.result.ok
    /\ Contains(op.result.val, "tomato healthy")

\* C9: when the catalog holds a record for a name and the record lacks one of
\* description, treatment, prevention, lookup treats the record as absent: it
\* returns the no-data message and does not fail.
C9_IncompleteRecordIsAMiss ==
    (IsLookup /\ IsKey(op.disease_name) /\ ~HasThreeFields(RecordOf(op.disease_name)))
    => /\ op.result.ok
       /\ op.result.val = NoInfoMessage(op.disease_name)

\* the hierarchy has objects at its three levels
ThreeLevels(data) ==
    /\ data.kind = "obj"
    /\ \A i \in 1..Len(data.d) :
           /\ data.d[i][2].kind = "obj"
           /\ \A j \in 1..Len(data.d[i][2].d) : data.d[i][2].d[j][2].kind = "obj"

\* the diseases under category i, crop j
DiseasesAt(data, i, j) == data.d[i][2].d[j][2].d

\* the places <<category, crop, disease>> of the hierarchy
Places(data) ==
    UNION {UNION {{<<i, j, k>> : k \in 1..Len(DiseasesAt(data, i, j))}
                  : j \in 1..Len(data.d[i][2].d)}
           : i \in 1..Len(data.d)}

NameAt(data, pl) == DiseasesAt(data, pl[1], pl[2])[pl[3]][1]
InfoAt(data, pl) == DiseasesAt(data, pl[1], pl[2])[pl[3]][2]

\* place a is iterated before place b
Before(a, b) ==
    \/ a[1] < b[1]
    \/ a[1] = b[1] /\ a[2] < b[2]
    \/ a[1] = b[1] /\ a[2] = b[2] /\ a[3] < b[3]

\* C10: flattening a category -> crop -> disease mapping yields a catalog whose
\* keys are exactly the innermost disease names, and a name that occurs more
\* than once keeps the record met last in iteration order.
C10_FlattenLastWriteWins ==
    (IsFlatten /\ ThreeLevels(comprehensive_file.data))
    => LET data == comprehensive_file.data
       IN  /\ op.result.ok
           /\ DictKeys(op.result.val) = {NameAt(data, pl) : pl \in Places(data)}
           /\ Len(op.result.val) = Cardinality(DictKeys(op.result.val))
           /\ \A pl \in Places(data) :
                  (\A other \in Places(data) :
                       NameAt(data, other) = NameAt(data, pl)
                           => other = pl \/ Before(other, pl))
                  => DictGet(op.result.val, NameAt(data, pl)) = InfoAt(data, pl)

C10_Witness ==
    /\ IsFlatten
    /\ ThreeLevels(comprehensive_file.data)
    /\ op.result.ok
    /\ \E a \in Places(comprehensive_file.data), b \in Places(comprehensive_file.data) :
           /\ a[1] < b[1]
           /\ NameAt(comprehensive_file.data, a) = NameAt(comprehensive_file.data, b)
           /\ InfoAt(comprehensive_file.data, a) # InfoAt(comprehensive_file.data, b)
           /\ DictGet(op.result.val, NameAt(comprehensive_file.data, b))
                  = InfoAt(comprehensive_file.data, b)
           /\ \A c \in Places(comprehensive_file.data) :
                  NameAt(comprehensive_file.data, c) = NameAt(comprehensive_file.data, b)
                      => c = b \/ Before(c, b)

\* C11: flattening is idempotent: applied to an already-flat structure (disease
\* name -> record) it yields that structure as the catalog.
C11_FlattenIdempotent ==
    (IsFlatten /\ IsFlatStructure(comprehensive_file.data))
    => /\ op.result.ok
       /\ op.result.val = comprehensive_file.data.d

\* some record of the flat structure holds a field
HoldsAField(data) == \E i \in 1..Len(data.d) : data.d[i][2].d # <<>>

\* C11, amended: applied to a non-empty flat structure, flattening never yields
\* that structure: it raises when a record holds a field (the field's value is a
\* string, not a mapping) and yields the empty catalog otherwise.
C11_FlattenRejectsFlat ==
    (IsFlatten /\ IsFlatStructure(comprehensive_file.data)
        /\ comprehensive_file.data.d # <<>>)
    => IF HoldsAField(comprehensive_file.data)
       THEN ~op.result.ok /\ op.result.exc = "AttributeError"
       ELSE op.result.ok /\ op.result.val = <<>>

C11_Witness ==
    /\ IsFlatten
    /\ comprehensive_file.data = Obj(SampleFlat)
    /\ ~op.result.ok
    /\ op.result.exc = "AttributeError"

----------------------------------------------------------------------------
(* Properties of the service's lifecycle *)

\* C12: when the classifier artifact is absent or fails to load, startup falls
\* back to the dummy classifier, so once startup has run a classifier is loaded
\* and no predict request is rejected for a missing model.
C12_StartupAlwaysLoads ==
    started =>
        /\ model # None
        /\ model_file.kind \in {"absent", "corrupt"} => model = create_dummy_model
        /\ IsPredict =>
               /\ op.model_loaded
               /\ op.body # [detail |-> "Prediction failed: 500: Model not loaded"]

C12_Witness ==
    /\ started
    /\ model_file.kind = "corrupt"
    /\ model.kind = "dummy"
    /\ IsPredict
    /\ ~op.began_loaded
    /\ op.status = 200

IsHealth == op.name = "health"

\* what GET /health answers, and when a classifier is loaded
HealthAnswer ==
    /\ IsHealth =>
           /\ op.status = 200
           /\ op.body.status \in {"healthy", "degraded"}
           /\ op.body.model_loaded = (model # None)
    /\ (model # None) = started

\* a step of a request leaves the classifier as it is, and a loaded classifier
\* is never replaced or cleared
ClassifierKept ==
    /\ op'.name \in {"root", "health", "predict"} => model' = model
    /\ pending' # pending => model' = model
    /\ model # None => model' = model

\* C13: GET /health always answers 200 with status "healthy" or "degraded" and
\* model_loaded telling whether a classifier is loaded: false until startup has
\* assigned one, true ever after, no request reassigning or clearing it.
C13_HealthReportsClassifier == [](HealthAnswer) /\ [][ClassifierKept]_vars

C13_Witness ==
    /\ IsHealth
    /\ started
    /\ op.status = 200
    /\ op.body.model_loaded = TRUE

----------------------------------------------------------------------------
(* Properties of the preprocessing *)

\* C14: for every valid input image (one that is identified and whose pixel
\* data loads), whatever its size and colour mode, a tensor is made for the
\* classifier, and it has the dimensions (1, 224, 224, 3) and all its values in
\* [0, 1].
C14_TensorShapeAndRange ==
    IsPredict =>
        /\ ValidUpload(op.file) => op.tensor # NoTensor
        /\ op.tensor # NoTensor =>
               /\ op.tensor.shape = <<1, 224, 224, 3>>
               /\ 0 <= op.tensor.lo
               /\ op.tensor.lo <= op.tensor.hi
               /\ op.tensor.hi <= op.tensor.scale

\* C15: an upload that is not declared as an image is rejected at validation,
\* before any later step: its bytes are not read or decoded, no tensor is made
\* and the classifier is not invoked.
C15_NonImageStopsAtValidation ==
    (IsPredict
        /\ (~op.file.has_content_type \/ ~StartsWith(op.file.content_type, "image/")))
    => /\ op.steps = <<"validate">>
       /\ op.tensor = NoTensor
       /\ ~op.invoked
       /\ op.status # 200

C15_Witness ==
    /\ IsPredict
    /\ op.file.content_type = "text/plain"
    /\ pending # <<>>
    /\ op.model_loaded
    /\ op.steps = <<"validate">>
    /\ ~op.invoked

----------------------------------------------------------------------------
(* The shipped configuration *)

\* backend/train.py, CONFIG
num_classes == 85
class_names == disease_names

\* C16: in the shipped configuration the label list is at least as long as the
\* classifier's output (the 85 outputs of the dummy classifier and of the
\* training configuration), so every index the classifier can select maps to a
\* disease label and never to "Unknown Disease".
C16_LabelsCoverOutputs ==
    (IsPredict /\ op.invoked /\ model = create_dummy_model)
    => /\ op.outputs <= Len(disease_names)
       /\ num_classes <= Len(class_names)
       /\ op.status = 200 => op.body.disease_name # "Unknown Disease"

====
